---- MODULE Spec2Model ----
(***************************************************************************)
(* Model of the water-observatory notification pipeline: the connection    *)
(* manager and codec of rabbitmq_utils.py, the producer of                 *)
(* data_publisher.py and the consumer of admin_consumer.py, together with  *)
(* the part of the AMQP broker they talk to.                               *)
(***************************************************************************)
EXTENDS Integers, Sequences, FiniteSets, TLC

(***************************************************************************)
(* Bounds of the model.                                                    *)
(***************************************************************************)
MaxMessages == 2         \* messages published in all, by the producer and by others

(***************************************************************************)
(* Fixed broker configuration, rabbitmq_utils.py.                          *)
(***************************************************************************)
EXCHANGE_NAME == "observatorio_events"
QUEUE_NAME == "admin_notifications"
ROUTING_KEY == "water.data.uploaded"

(***************************************************************************)
(* Python values.  Every value is a node of one shape, so that any two     *)
(* values can be compared: t is the type, s the text of a scalar, k the    *)
(* keys of a dict (insertion order) and c the children of a dict or list.  *)
(* t = "obj" is a value json cannot represent.                             *)
(***************************************************************************)
PyStr(x) == [t |-> "str", s |-> x, k |-> <<>>, c |-> <<>>]
PyInt(x) == [t |-> "int", s |-> x, k |-> <<>>, c |-> <<>>]
PyFloat(x) == [t |-> "float", s |-> x, k |-> <<>>, c |-> <<>>]
PyBool(b) == [t |-> "bool", s |-> IF b THEN "true" ELSE "false", k |-> <<>>, c |-> <<>>]
PyNone == [t |-> "none", s |-> "null", k |-> <<>>, c |-> <<>>]
PyObj == [t |-> "obj", s |-> "object", k |-> <<>>, c |-> <<>>]
PyList(xs) == [t |-> "list", s |-> "", k |-> <<>>, c |-> xs]
PyDict(ks, xs) == [t |-> "dict", s |-> "", k |-> ks, c |-> xs]

\* d[key] succeeds exactly on a dict that has the key
HasKey(d, key) == d.t = "dict" /\ \E i \in 1..Len(d.k) : d.k[i] = key
\* position of the last occurrence of key (a repeated key keeps the last value)
KeyPos(d, key) == CHOOSE i \in 1..Len(d.k) :
                     d.k[i] = key /\ \A j \in 1..Len(d.k) : d.k[j] = key => j <= i
Item(d, key) == d.c[KeyPos(d, key)]

\* truth value of `if x`
Truthy(x) ==
  CASE x.t = "bool" -> x.s = "true"
    [] x.t = "none" -> FALSE
    [] x.t = "str" -> x.s # ""
    [] x.t = "int" -> x.s # "0"
    [] x.t = "float" -> x.s # "0.0"
    [] x.t \in {"list", "dict"} -> Len(x.c) > 0
    [] OTHER -> TRUE

(***************************************************************************)
(* Wire format.  A payload is a sequence of lexical tokens <<kind, text>>: *)
(* punctuation "p", string "str", number "int"/"float", literal "lit", and *)
(* "raw" for bytes that are not UTF-8 text.                                *)
(***************************************************************************)
Tok(kind, text) == <<kind, text>>

RECURSIVE Serializable(_)
Serializable(v) ==
  /\ v.t # "obj"
  /\ \A i \in 1..Len(v.c) : Serializable(v.c[i])

RECURSIVE json_dumps(_)
RECURSIVE DumpItems(_, _)
\* the elements of a list (or members of a dict) from position i on
DumpItems(v, i) ==
  IF i > Len(v.c) THEN <<>>
  ELSE (IF i > 1 THEN <<Tok("p", ",")>> ELSE <<>>)
       \o (IF v.t = "dict" THEN <<Tok("str", v.k[i]), Tok("p", ":")>> ELSE <<>>)
       \o json_dumps(v.c[i])
       \o DumpItems(v, i + 1)

json_dumps(v) ==
  CASE v.t = "str" -> <<Tok("str", v.s)>>
    [] v.t = "int" -> <<Tok("int", v.s)>>
    [] v.t = "float" -> <<Tok("float", v.s)>>
    [] v.t \in {"bool", "none"} -> <<Tok("lit", v.s)>>
    [] v.t = "list" -> <<Tok("p", "[")>> \o DumpItems(v, 1) \o <<Tok("p", "]")>>
    [] v.t = "dict" -> <<Tok("p", "{")>> \o DumpItems(v, 1) \o <<Tok("p", "}")>>

SerializeError == PyDict(<<"error">>, <<PyStr("Error de serializacion")>>)
DeserializeError == PyDict(<<"error">>, <<PyStr("Error al deserializar mensaje")>>)

serialize_message(data) ==
  IF Serializable(data) THEN json_dumps(data) ELSE json_dumps(SerializeError)

\* a dict in which a repeated key keeps its first position and last value
DedupKeys(d) ==
  LET firsts == SelectSeq([i \in 1..Len(d.k) |-> i],
                          LAMBDA i : \A j \in 1..(i - 1) : d.k[j] # d.k[i])
  IN PyDict([n \in 1..Len(firsts) |-> d.k[firsts[n]]],
            [n \in 1..Len(firsts) |-> Item(d, d.k[firsts[n]])])

\* result of a parsing step: the value read and the position after it
ParseOk(v, n) == [ok |-> TRUE, val |-> v, next |-> n]
ParseFail == [ok |-> FALSE, val |-> PyNone, next |-> 0]

\* the one element of a singleton set; { F(r) : r \in {e} } evaluates e once
TheOnly(S) == CHOOSE x \in S : TRUE

RECURSIVE ParseValue(_, _)
RECURSIVE ParseList(_, _, _)
RECURSIVE ParseDict(_, _, _, _)

\* after "[" or ",": the next element, then "," or "]"
ParseList(toks, i, acc) ==
  TheOnly({ IF ~r.ok \/ r.next > Len(toks) THEN ParseFail
            ELSE IF toks[r.next] = Tok("p", "]")
                 THEN ParseOk(PyList(Append(acc, r.val)), r.next + 1)
            ELSE IF toks[r.next] = Tok("p", ",")
                 THEN ParseList(toks, r.next + 1, Append(acc, r.val))
            ELSE ParseFail
            : r \in {ParseValue(toks, i)} })

\* after "{" or ",": "key" ":" value, then "," or "}"
ParseDict(toks, i, ks, acc) ==
  IF i + 1 > Len(toks) \/ toks[i][1] # "str" \/ toks[i + 1] # Tok("p", ":")
  THEN ParseFail
  ELSE TheOnly({ IF ~r.ok \/ r.next > Len(toks) THEN ParseFail
                 ELSE IF toks[r.next] = Tok("p", "}")
                      THEN ParseOk(DedupKeys(PyDict(Append(ks, toks[i][2]),
                                                    Append(acc, r.val))),
                                   r.next + 1)
                 ELSE IF toks[r.next] = Tok("p", ",")
                      THEN ParseDict(toks, r.next + 1, Append(ks, toks[i][2]),
                                     Append(acc, r.val))
                 ELSE ParseFail
                 : r \in {ParseValue(toks, i + 2)} })

\* json.loads reading every number as an int
ParseValue_FloatAsInt(toks, i) ==
  IF i > Len(toks) THEN ParseFail
  ELSE
    CASE toks[i][1] = "str" -> ParseOk(PyStr(toks[i][2]), i + 1)
      [] toks[i][1] \in {"int", "float"} -> ParseOk(PyInt(toks[i][2]), i + 1)
      [] toks[i] = Tok("lit", "true") -> ParseOk(PyBool(TRUE), i + 1)
      [] toks[i] = Tok("lit", "false") -> ParseOk(PyBool(FALSE), i + 1)
      [] toks[i] = Tok("lit", "null") -> ParseOk(PyNone, i + 1)
      [] toks[i] = Tok("p", "[") ->
           IF i + 1 <= Len(toks) /\ toks[i + 1] = Tok("p", "]")
           THEN ParseOk(PyList(<<>>), i + 2)
           ELSE ParseList(toks, i + 1, <<>>)
      [] toks[i] = Tok("p", "{") ->
           IF i + 1 <= Len(toks) /\ toks[i + 1] = Tok("p", "}")
           THEN ParseOk(PyDict(<<>>, <<>>), i + 2)
           ELSE ParseDict(toks, i + 1, <<>>, <<>>)
      [] OTHER -> ParseFail

ParseValue(toks, i) ==
  IF i > Len(toks) THEN ParseFail
  ELSE
    CASE toks[i][1] = "str" -> ParseOk(PyStr(toks[i][2]), i + 1)
      [] toks[i][1] = "int" -> ParseOk(PyInt(toks[i][2]), i + 1)
      [] toks[i][1] = "float" -> ParseOk(PyFloat(toks[i][2]), i + 1)
      [] toks[i] = Tok("lit", "true") -> ParseOk(PyBool(TRUE), i + 1)
      [] toks[i] = Tok("lit", "false") -> ParseOk(PyBool(FALSE), i + 1)
      [] toks[i] = Tok("lit", "null") -> ParseOk(PyNone, i + 1)
      [] toks[i] = Tok("p", "[") ->
           IF i + 1 <= Len(toks) /\ toks[i + 1] = Tok("p", "]")
           THEN ParseOk(PyList(<<>>), i + 2)
           ELSE ParseList(toks, i + 1, <<>>)
      [] toks[i] = Tok("p", "{") ->
           IF i + 1 <= Len(toks) /\ toks[i + 1] = Tok("p", "}")
           THEN ParseOk(PyDict(<<>>, <<>>), i + 2)
           ELSE ParseDict(toks, i + 1, <<>>, <<>>)
      [] OTHER -> ParseFail

\* body.decode('utf-8') raises on bytes that are not UTF-8
Utf8Decodable(body) == \A i \in 1..Len(body) : body[i][1] # "raw"

\* json.loads: one value and nothing after it
json_loads(toks) == ParseValue(toks, 1)

\* json.loads(body.decode('utf-8')), and the marker for any exception
deserialize_message(body) ==
  IF ~Utf8Decodable(body) THEN DeserializeError
  ELSE TheOnly({ IF r.ok /\ r.next = Len(body) + 1 THEN r.val ELSE DeserializeError
                 : r \in {json_loads(body)} })

(***************************************************************************)
(* Records of the producer, data_publisher.py.                             *)
(***************************************************************************)
Measurement(parameter, value, unit, exceeded) ==
  PyDict(<<"parameter", "value", "unit", "threshold_exceeded">>,
         <<PyStr(parameter), value, PyStr(unit), PyBool(exceeded)>>)

\* the measurement generated for a parameter: value and unit follow the parameter
SampleOf(parameter, exceeded) ==
  CASE parameter = "pH" -> Measurement("pH", PyFloat("7.25"), "pH", exceeded)
    [] parameter = "Temperatura" -> Measurement(parameter, PyFloat("21.5"), "C", exceeded)
    [] parameter = "Turbidez" -> Measurement(parameter, PyFloat("3.1"), "NTU", exceeded)
    [] parameter \in {"Coliformes totales", "E. coli"} ->
         Measurement(parameter, PyInt("120"), "UFC/100mL", exceeded)
    [] OTHER -> Measurement(parameter, PyFloat("42.0"), "mg/L", exceeded)

\* the threshold flags the random draw can give to the measurements
FlagPatterns == { <<FALSE, FALSE, FALSE>>, <<TRUE, FALSE, TRUE>> }
SampledParameters == <<"pH", "E. coli", "Nitratos">>

\* the upload record number n: one measurement for each sampled parameter,
\* with the given threshold flags
UploadWith(n, parameters, flags) ==
  PyDict(<<"batch_id", "timestamp", "location", "reporting_entity",
           "measurements", "metadata">>,
         << PyStr(ToString(n)), PyStr("T-data"), PyStr("Laguna Central"),
            PyStr("ONG EcoAgua"),
            PyList([i \in 1..Len(flags) |-> SampleOf(parameters[i], flags[i])]),
            PyDict(<<"device_id", "upload_method", "comments">>,
                   <<PyStr("SENSOR-1000"), PyStr("API"),
                     PyStr("Datos simulados para prueba de concepto")>>) >>)

Upload(n, flags) == UploadWith(n, SampledParameters, flags)

simulate_data_upload(n) == { Upload(n, flags) : flags \in FlagPatterns }

\* the envelope publish_notification wraps around the data
Notification(data) ==
  PyDict(<<"event_type", "timestamp", "data">>,
         <<PyStr("data_upload"), PyStr("T-envelope"), data>>)

(***************************************************************************)
(* Payloads other clients of the exchange can publish: bytes that are not  *)
(* UTF-8, truncated JSON, an envelope whose second measurement lacks a     *)
(* field, and a well-formed envelope.                                      *)
(***************************************************************************)
BrokenUpload ==
  PyDict(<<"batch_id", "timestamp", "location", "reporting_entity", "measurements">>,
         << PyStr("f1"), PyStr("T-data"), PyStr("Afluente Este"), PyStr("ONG EcoAgua"),
            PyList(<< SampleOf("pH", TRUE),
                      PyDict(<<"parameter", "value">>, <<PyStr("pH"), PyFloat("7.0")>>) >>) >>)

ForeignBodies ==
  { <<Tok("raw", "ff")>>,
    <<Tok("p", "{"), Tok("str", "event_type")>>,
    json_dumps(Notification(BrokenUpload)),
    json_dumps(Notification(Upload(0, <<FALSE, TRUE, FALSE>>))) }

(***************************************************************************)
(* ConsoleNotifier, admin_consumer.py.  The screen is the sequence of      *)
(* lines printed since the last clear_screen.                              *)
(***************************************************************************)
Line(kind, n, text, alert) == [kind |-> kind, n |-> n, text |-> text, alert |-> alert]

\* print_header: clears the screen and prints the banner with the counter
print_header(count) == << Line("header", count, "", FALSE) >>

\* the fields display_notification reads before it prints anything more
ExtractOk(data) ==
  /\ HasKey(data, "data")
  /\ \A f \in {"batch_id", "timestamp", "location", "reporting_entity", "measurements"} :
       HasKey(Item(data, "data"), f)

\* what `for measurement in measurements` iterates over; a value that is not
\* iterable raises
Iterable(m) == m.t \in {"list", "dict", "str"}
Elements(m) ==
  CASE m.t = "list" -> m.c
    [] m.t = "dict" -> [i \in 1..Len(m.k) |-> PyStr(m.k[i])]
    [] m.t = "str" -> IF m.s = "" THEN <<>> ELSE <<PyStr(m.s)>>
    [] OTHER -> <<>>

MeasurementOk(m) ==
  \A f \in {"parameter", "value", "unit", "threshold_exceeded"} : HasKey(m, f)

\* the measurements printed before the loop raises (all of them if it does not)
PrintedCount(ms) ==
  IF \E i \in 1..Len(ms) : ~MeasurementOk(ms[i])
  THEN (CHOOSE i \in 1..Len(ms) :
          ~MeasurementOk(ms[i]) /\ \A j \in 1..(i - 1) : MeasurementOk(ms[j])) - 1
  ELSE Len(ms)

\* the alert list built without its filter: every measurement counts
Alerts_Unfiltered(ms) == { i \in 1..Len(ms) : HasKey(ms[i], "threshold_exceeded") }

\* alerts = [m for m in measurements if m['threshold_exceeded']]
Alerts(ms) == { i \in 1..Len(ms) : Truthy(Item(ms[i], "threshold_exceeded")) }

\* display_notification after the counter and header: the screen it leaves
\* and whether it raised
display_body(data, header) ==
  IF ~ExtractOk(data) THEN [raised |-> TRUE, screen |-> header]
  ELSE
    LET d == Item(data, "data")
        top == header \o << Line("title", 0, "", FALSE),
                            Line("batch", 0, Item(d, "batch_id").s, FALSE),
                            Line("fields", 0, Item(d, "location").s, FALSE),
                            Line("measurements", 0, "", FALSE) >>
        m == Item(d, "measurements")
    IN
    IF ~Iterable(m) THEN [raised |-> TRUE, screen |-> top]
    ELSE
      LET ms == Elements(m)
          shown == PrintedCount(ms)
          rows == [i \in 1..shown |->
                     Line("measurement", i, Item(ms[i], "parameter").s,
                          Truthy(Item(ms[i], "threshold_exceeded")))]
      IN
      IF shown < Len(ms) THEN [raised |-> TRUE, screen |-> top \o rows]
      ELSE [raised |-> FALSE,
            screen |-> top \o rows
                       \o (IF Alerts(ms) # {}
                           THEN << Line("alert", Cardinality(Alerts(ms)), "", TRUE) >>
                           ELSE <<>>)
                       \o << Line("footer", 0, "", FALSE) >>]

(***************************************************************************)
(* State.                                                                  *)
(***************************************************************************)
VARIABLES
  conn,                \* RabbitMQConnection of each process: connection and channel
  broker,              \* topology, ready queue, unacknowledged deliveries, consumer
  pending,             \* deliveries received by the client and not yet dispatched
  shutdown_flag,       \* threading.Event of the consumer
  notification_count,  \* ConsoleNotifier.notification_count
  screen,              \* what the console shows
  cm,                  \* consumer, main thread: position and result of connect
  ct,                  \* consumer, receive-loop thread: position, delivery, data
  pp,                  \* producer, main: position, loop count, last publish call
  env,                 \* what the environment has done: foreign messages
  hist                 \* history of acknowledgments, handler outcomes, broker calls

vars == << conn, broker, pending, shutdown_flag, notification_count, screen,
           cm, ct, pp, env, hist >>

Procs == {"consumer", "producer"}

NoMsg == [body |-> <<>>, exchange |-> "", routing_key |-> "",
          delivery_mode |-> 0, content_type |-> ""]
NoDelivery == [tag |-> 0, msg |-> NoMsg]

TopicExchange == [name |-> EXCHANGE_NAME, type |-> "topic", durable |-> TRUE]
DurableQueue == [name |-> QUEUE_NAME, durable |-> TRUE]
\* the queue bound under a key the producer does not publish with
Binding_OtherKey == [exchange |-> EXCHANGE_NAME, queue |-> QUEUE_NAME, routing_key |-> "water.data.deleted"]

Binding == [exchange |-> EXCHANGE_NAME, queue |-> QUEUE_NAME, routing_key |-> ROUTING_KEY]

(***************************************************************************)
(* The broker, as the calls of the two programs use it.                    *)
(***************************************************************************)
exchange_declare(b) == [b EXCEPT !.exchanges = @ \cup {TopicExchange}]
\* queue_declare(queue=''): the broker makes a new queue with a name of its own
queue_declare_Anonymous(b) ==
  [b EXCEPT !.queues = @ \cup {[name |-> ToString(Cardinality(@) + 1), durable |-> TRUE]}]

queue_declare(b) == [b EXCEPT !.queues = @ \cup {DurableQueue}]
queue_bind(b) == [b EXCEPT !.bindings = @ \cup {Binding}]
basic_qos(b, n) == [b EXCEPT !.prefetch = n]
basic_consume(b) == [b EXCEPT !.consumer = TRUE]

\* a published message goes to the queue bound under its routing key, and is
\* dropped when there is none
Route(b, m) ==
  IF \E bd \in b.bindings : bd.exchange = m.exchange /\ bd.routing_key = m.routing_key
  THEN [b EXCEPT !.ready = Append(@, m)]
  ELSE b

Msgs(ds) == [i \in 1..Len(ds) |-> ds[i].msg]

\* basic.ack of one delivery
basic_ack(b, tag) == [b EXCEPT !.unacked = SelectSeq(@, LAMBDA d : d.tag # tag)]

\* basic.cancel as pika's BlockingChannel does it: the deliveries not yet
\* dispatched are rejected with requeue, then the consumer is cancelled
stop_consuming(b, pend) ==
  [b EXCEPT !.unacked = SelectSeq(@, LAMBDA d : \A i \in 1..Len(pend) : pend[i].tag # d.tag),
            !.ready = Msgs(pend) \o @,
            !.consumer = FALSE]

\* the consumer's connection is gone: every unacknowledged delivery returns
\* to the queue and the consumer is removed
Release(b) ==
  [b EXCEPT !.ready = Msgs(b.unacked) \o @, !.unacked = <<>>, !.consumer = FALSE,
            !.prefetch = 0]

(***************************************************************************)
(* RabbitMQConnection, rabbitmq_utils.py.                                  *)
(***************************************************************************)
\* what the broker does to a connection attempt, and the exception pika raises
ConnectOutcomes == {"ok", "unreachable", "auth_rejected", "stream_lost", "declare_refused"}
ExceptionOf(outcome) ==
  CASE outcome = "ok" -> "none"
    [] outcome \in {"unreachable", "auth_rejected", "stream_lost"} -> "AMQPConnectionError"
    [] outcome = "declare_refused" -> "AMQPChannelError"

\* connect without its except clause
ConnectReturn_Uncaught(exc) == IF exc = "none" THEN "True" ELSE "raised"

\* connect: True, False for the exception it catches, "raised" for any other
ConnectReturn(exc) ==
  CASE exc = "none" -> "True"
    [] exc = "AMQPConnectionError" -> "False"
    [] OTHER -> "raised"

\* the connection and channel fields connect leaves behind
ConnectFields(outcome) ==
  CASE outcome = "ok" -> [connection |-> "open", channel |-> "open"]
    [] outcome \in {"unreachable", "auth_rejected"} -> [connection |-> "none", channel |-> "none"]
    [] outcome = "stream_lost" -> [connection |-> "closed", channel |-> "none"]
    [] outcome = "declare_refused" -> [connection |-> "open", channel |-> "closed"]

\* `self.channel and self.channel.is_open`
ChannelOpen(p) == conn[p].channel = "open"
\* `self.connection and self.connection.is_open`
ConnectionOpen(p) == conn[p].connection = "open"

\* pika's BlockingConnection.close(): it closes an open connection with its
\* channel, and raises on one that is not open (or on None)
connection_close(c) ==
  IF c.connection = "open"
  THEN [after |-> [connection |-> "closed",
                   channel |-> IF c.channel = "open" THEN "closed" ELSE c.channel],
        raised |-> FALSE]
  ELSE [after |-> c, raised |-> TRUE]

\* close() without its test of self.connection.is_open
close_outcome_Unguarded(c) == connection_close(c)

\* close(): the fields it leaves and whether it raised
close_outcome(c) ==
  IF c.connection = "open" THEN connection_close(c) ELSE [after |-> c, raised |-> FALSE]

close(c) == close_outcome(c).after

Init ==
  /\ conn = [p \in Procs |-> [connection |-> "none", channel |-> "none"]]
  /\ broker = [exchanges |-> {}, queues |-> {}, bindings |-> {}, ready |-> <<>>,
               unacked |-> <<>>, consumer |-> FALSE, prefetch |-> 0,
               nextTag |-> 1]
  /\ pending = <<>>
  /\ shutdown_flag = FALSE
  /\ notification_count = 0
  /\ screen = <<>>
  /\ cm = [pc |-> "connect", connected |-> "none", cause |-> "none", exc |-> FALSE]
  /\ ct = [pc |-> "unstarted", cur |-> NoDelivery, data |-> PyNone, fault |-> FALSE,
           interrupted |-> FALSE]
  /\ pp = [pc |-> "connect", connected |-> "none", cause |-> "none", n |-> 0,
           last |-> [attempts |-> <<>>, sent |-> <<>>, result |-> "none"],
           exc |-> FALSE]
  /\ env = [foreign |-> 0]
  /\ hist = [acked |-> {}, returned |-> {}, raised |-> {}, calls |-> {},
             closed |-> {}, setup |-> <<>>, good |-> [count |-> 0, screen |-> <<>>],
             connects |-> [p \in Procs |-> 0],
             lifecycle |-> <<>>]

(***************************************************************************)
(* Consumer, main thread: main() of admin_consumer.py.                     *)
(***************************************************************************)
MainAlive == cm.pc \notin {"returned", "escaped"}
\* the receive-loop thread is running consume_messages
ThreadActive == ct.pc \notin {"unstarted", "done"}

\* process_message is running: a delivery is in the callback, its ack not sent
InHandler == ct.pc \in {"deserialize", "display_begin", "display_body", "ack"}

\* the consumer is set up and inside its receive loop: queue bound, consumer
\* registered, start_consuming entered and not left
Consuming ==
  /\ Binding \in broker.bindings
  /\ broker.consumer
  /\ ct.pc \in {"consuming", "deserialize", "display_begin", "display_body", "ack"}

\* a call on the connection or channel, with the thread that made it and
\* whether the receive-loop thread was running at that moment
Call(op, ctx) == [op |-> op, ctx |-> ctx, concurrent |-> ThreadActive]
Logged(op, ctx) == [hist EXCEPT !.calls = @ \cup {Call(op, ctx)}]

\* pika's BlockingConnection is not safe for use from two threads: a call
\* made while the other thread is inside the receive loop may complete or raise
CrossThreadOutcomes == IF ThreadActive THEN {"ok", "raise"} ELSE {"ok"}

\* main going on to setup_consumer whatever connect returned
C_Connect_IgnoresResult(outcome) ==
  /\ cm.pc = "connect"
  /\ conn' = [conn EXCEPT !["consumer"] = ConnectFields(outcome)]
  /\ broker' = IF outcome = "ok" THEN exchange_declare(broker) ELSE broker
  /\ cm' = [cm EXCEPT !.connected = ConnectReturn(ExceptionOf(outcome)),
                      !.cause = outcome,
                      !.pc = IF ConnectReturn(ExceptionOf(outcome)) # "raised"
                             THEN "queue_declare" ELSE "finally_stop"]
  /\ hist' = [hist EXCEPT !.connects["consumer"] = @ + 1]
  /\ UNCHANGED << pending, shutdown_flag, notification_count, screen, ct, pp, env >>

\* rmq_connection.connect() and the branch on its result
C_Connect(outcome) ==
  /\ cm.pc = "connect"
  /\ conn' = [conn EXCEPT !["consumer"] = ConnectFields(outcome)]
  /\ broker' = IF outcome = "ok" THEN exchange_declare(broker) ELSE broker
  /\ cm' = [cm EXCEPT !.connected = ConnectReturn(ExceptionOf(outcome)),
                      !.cause = outcome,
                      !.pc = IF ConnectReturn(ExceptionOf(outcome)) = "True"
                             THEN "queue_declare" ELSE "finally_stop"]
  /\ hist' = [hist EXCEPT !.connects["consumer"] = @ + 1]
  /\ UNCHANGED << pending, shutdown_flag, notification_count, screen, ct, pp, env >>

\* one channel call of setup_consumer: it raises on a closed channel, and
\* main's `except Exception` leads to the finally block
SetupCall(pc, next, b) ==
  /\ cm.pc = pc
  /\ IF ChannelOpen("consumer")
     THEN /\ broker' = b
          /\ cm' = [cm EXCEPT !.pc = next]
          /\ hist' = [hist EXCEPT !.setup = Append(@, pc)]
     ELSE /\ cm' = [cm EXCEPT !.pc = "finally_stop"]
          /\ UNCHANGED << broker, hist >>
  /\ UNCHANGED << conn, pending, shutdown_flag, notification_count, screen, ct, pp, env >>

\* setup_consumer registering the callback right after the queue declaration
C_QueueDeclare_ConsumeNext == SetupCall("queue_declare", "basic_consume", queue_declare(broker))

C_QueueDeclare == SetupCall("queue_declare", "queue_bind", queue_declare(broker))
C_QueueBind == SetupCall("queue_bind", "notifier", queue_bind(broker))

\* notifier = ConsoleNotifier(); notifier.print_header()
C_Notifier ==
  /\ cm.pc = "notifier"
  /\ notification_count' = 0
  /\ screen' = print_header(0)
  /\ hist' = [hist EXCEPT !.good = [count |-> 0, screen |-> print_header(0)]]
  /\ cm' = [cm EXCEPT !.pc = "basic_qos"]
  /\ UNCHANGED << conn, broker, pending, shutdown_flag, ct, pp, env >>

PREFETCH_COUNT == 1
\* setup_consumer asking for no prefetch limit
C_BasicQos_Unlimited == SetupCall("basic_qos", "basic_consume", basic_qos(broker, 0))

C_BasicQos == SetupCall("basic_qos", "basic_consume", basic_qos(broker, PREFETCH_COUNT))
C_BasicConsume == SetupCall("basic_consume", "start_thread", basic_consume(broker))

\* consumer_thread.start()
C_StartThread ==
  /\ cm.pc = "start_thread"
  /\ cm' = [cm EXCEPT !.pc = "poll"]
  /\ ct' = [ct EXCEPT !.pc = "start_consuming"]
  /\ UNCHANGED << conn, broker, pending, shutdown_flag, notification_count, screen,
                  pp, env, hist >>

\* a wait that also ends when the receive-loop thread has ended
C_Poll_WatchesThread ==
  /\ cm.pc = "poll"
  /\ shutdown_flag \/ ct.pc = "done"
  /\ cm' = [cm EXCEPT !.pc = "finally_stop"]
  /\ UNCHANGED << conn, broker, pending, shutdown_flag, notification_count, screen,
                  ct, pp, env, hist >>

\* while not shutdown_flag.is_set(): time.sleep(0.1)
C_Poll ==
  /\ cm.pc = "poll"
  /\ shutdown_flag
  /\ cm' = [cm EXCEPT !.pc = "finally_stop"]
  /\ UNCHANGED << conn, broker, pending, shutdown_flag, notification_count, screen,
                  ct, pp, env, hist >>

\* finally: if channel and channel.is_open: channel.stop_consuming()
C_FinallyStop(outcome) ==
  /\ cm.pc = "finally_stop"
  /\ IF ChannelOpen("consumer")
     THEN /\ outcome \in CrossThreadOutcomes
          /\ hist' = Logged("stop_consuming", "main")
          /\ IF outcome = "ok"
             THEN /\ broker' = stop_consuming(broker, pending)
                  /\ pending' = <<>>
                  /\ cm' = [cm EXCEPT !.pc = "finally_close"]
             ELSE /\ cm' = [cm EXCEPT !.pc = "escaped", !.exc = TRUE]
                  /\ UNCHANGED << broker, pending >>
     ELSE /\ outcome = "ok"
          /\ cm' = [cm EXCEPT !.pc = "finally_close"]
          /\ UNCHANGED << broker, pending, hist >>
  /\ UNCHANGED << conn, shutdown_flag, notification_count, screen, ct, pp, env >>

\* finally: rmq_connection.close()
C_FinallyClose(outcome) ==
  /\ cm.pc = "finally_close"
  /\ IF ConnectionOpen("consumer")
     THEN /\ outcome \in CrossThreadOutcomes
          /\ hist' = [Logged("close", "main") EXCEPT !.closed = @ \cup {"consumer"}]
          /\ IF outcome = "ok"
             THEN /\ conn' = [conn EXCEPT !["consumer"] = close(@)]
                  /\ broker' = Release(broker)
                  /\ pending' = <<>>
                  /\ cm' = [cm EXCEPT !.pc = "returned"]
             ELSE /\ cm' = [cm EXCEPT !.pc = "escaped", !.exc = TRUE]
                  /\ UNCHANGED << conn, broker, pending >>
     ELSE /\ outcome = "ok"
          /\ hist' = [hist EXCEPT !.closed = @ \cup {"consumer"}]
          /\ cm' = [cm EXCEPT !.pc = "returned"]
          /\ UNCHANGED << conn, broker, pending >>
  /\ UNCHANGED << shutdown_flag, notification_count, screen, ct, pp, env >>

\* signal_handler: SIGINT or SIGTERM sets the flag
signal_handler ==
  /\ MainAlive
  /\ shutdown_flag' = TRUE
  /\ ct' = [ct EXCEPT !.interrupted = @ \/ (~shutdown_flag /\ InHandler)]
  /\ UNCHANGED << conn, broker, pending, notification_count, screen, cm, pp, env, hist >>

(***************************************************************************)
(* Consumer, receive-loop thread: consume_messages and process_message.    *)
(* The daemon thread stops with the process when main ends.                *)
(***************************************************************************)
\* rmq_connection.channel.start_consuming() is entered
T_StartConsuming ==
  /\ MainAlive
  /\ ct.pc = "start_consuming"
  /\ ct' = [ct EXCEPT !.pc = "consuming"]
  /\ hist' = Logged("start_consuming", "loop")
  /\ UNCHANGED << conn, broker, pending, shutdown_flag, notification_count, screen,
                  cm, pp, env >>

\* the loop dispatches the next received delivery to the callback
T_Dispatch ==
  /\ MainAlive
  /\ ct.pc = "consuming"
  /\ ChannelOpen("consumer")
  /\ pending # <<>>
  /\ ct' = [ct EXCEPT !.pc = "deserialize", !.cur = Head(pending)]
  /\ pending' = Tail(pending)
  /\ UNCHANGED << conn, broker, shutdown_flag, notification_count, screen, cm, pp,
                  env, hist >>

\* start_consuming ends: it returns once the consumer is cancelled, and it
\* raises when the connection was lost; after a close() by the main thread
\* it may do either
T_LoopEnds(fault) ==
  /\ MainAlive
  /\ ct.pc = "consuming"
  /\ IF ChannelOpen("consumer")
     THEN ~broker.consumer /\ pending = <<>> /\ ~fault
     ELSE "consumer" \notin hist.closed => fault
  /\ ct' = [ct EXCEPT !.pc = "finally", !.fault = fault]
  /\ UNCHANGED << conn, broker, pending, shutdown_flag, notification_count, screen,
                  cm, pp, env, hist >>

\* data = deserialize_message(body)
T_Deserialize ==
  /\ MainAlive
  /\ ct.pc = "deserialize"
  /\ ct' = [ct EXCEPT !.pc = "display_begin", !.data = deserialize_message(ct.cur.msg.body)]
  /\ UNCHANGED << conn, broker, pending, shutdown_flag, notification_count, screen,
                  cm, pp, env, hist >>

\* the counter incremented by process_message as well as by display_notification
T_DisplayBegin_CountsTwice ==
  /\ MainAlive
  /\ ct.pc = "display_begin"
  /\ notification_count' = notification_count + 2
  /\ screen' = print_header(notification_count + 2)
  /\ ct' = [ct EXCEPT !.pc = "display_body"]
  /\ UNCHANGED << conn, broker, pending, shutdown_flag, cm, pp, env, hist >>

\* display_notification, first two statements: the counter and the header
T_DisplayBegin ==
  /\ MainAlive
  /\ ct.pc = "display_begin"
  /\ notification_count' = notification_count + 1
  /\ screen' = print_header(notification_count + 1)
  /\ ct' = [ct EXCEPT !.pc = "display_body"]
  /\ UNCHANGED << conn, broker, pending, shutdown_flag, cm, pp, env, hist >>

\* a callback that swallows the handler's exception and acknowledges anyway
T_DisplayBody_AckOnFault ==
  /\ MainAlive
  /\ ct.pc = "display_body"
  /\ LET r == display_body(ct.data, screen) IN
     /\ screen' = r.screen
     /\ ct' = [ct EXCEPT !.pc = "ack"]
     /\ IF r.raised
        THEN hist' = [hist EXCEPT !.raised = @ \cup {ct.cur.tag}]
        ELSE hist' = [hist EXCEPT !.returned = @ \cup {ct.cur.tag},
                                  !.good = [count |-> notification_count,
                                            screen |-> r.screen]]
  /\ UNCHANGED << conn, broker, pending, shutdown_flag, notification_count, cm, pp, env >>

\* display_notification, the rest: it returns, or raises out of the loop
T_DisplayBody ==
  /\ MainAlive
  /\ ct.pc = "display_body"
  /\ LET r == display_body(ct.data, screen) IN
     /\ screen' = r.screen
     /\ IF r.raised
        THEN /\ ct' = [ct EXCEPT !.pc = "finally", !.fault = TRUE, !.interrupted = FALSE]
             /\ hist' = [hist EXCEPT !.raised = @ \cup {ct.cur.tag}]
        ELSE /\ ct' = [ct EXCEPT !.pc = "ack"]
             /\ hist' = [hist EXCEPT !.returned = @ \cup {ct.cur.tag},
                                     !.good = [count |-> notification_count,
                                               screen |-> r.screen]]
  /\ UNCHANGED << conn, broker, pending, shutdown_flag, notification_count, cm, pp, env >>

\* ch.basic_ack(delivery_tag=method.delivery_tag); it raises on a closed channel
T_Ack ==
  /\ MainAlive
  /\ ct.pc = "ack"
  /\ IF ChannelOpen("consumer")
     THEN /\ broker' = basic_ack(broker, ct.cur.tag)
          /\ hist' = [Logged("basic_ack", "loop") EXCEPT !.acked = @ \cup {ct.cur.tag}]
          /\ ct' = [ct EXCEPT !.pc = "consuming", !.cur = NoDelivery, !.data = PyNone,
                              !.interrupted = FALSE]
     ELSE /\ ct' = [ct EXCEPT !.pc = "finally", !.fault = TRUE, !.interrupted = FALSE]
          /\ UNCHANGED << broker, hist >>
  /\ UNCHANGED << conn, pending, shutdown_flag, notification_count, screen, cm, pp, env >>

\* except: log; finally: if channel and channel.is_open: channel.stop_consuming()
T_Finally ==
  /\ MainAlive
  /\ ct.pc = "finally"
  /\ IF ChannelOpen("consumer")
     THEN /\ broker' = stop_consuming(broker, pending)
          /\ pending' = <<>>
          /\ hist' = Logged("stop_consuming", "loop")
     ELSE UNCHANGED << broker, pending, hist >>
  /\ ct' = [ct EXCEPT !.pc = "done"]
  /\ UNCHANGED << conn, shutdown_flag, notification_count, screen, cm, pp, env >>

(***************************************************************************)
(* Broker and environment.                                                 *)
(***************************************************************************)
\* the broker pushes the head of the queue to the consumer while the number
\* of unacknowledged deliveries is under the prefetch limit (0: no limit)
B_Deliver ==
  /\ broker.consumer
  /\ ConnectionOpen("consumer")
  /\ broker.ready # <<>>
  /\ broker.prefetch = 0 \/ Len(broker.unacked) < broker.prefetch
  /\ LET d == [tag |-> broker.nextTag, msg |-> Head(broker.ready)] IN
     /\ broker' = [broker EXCEPT !.ready = Tail(@), !.unacked = Append(@, d),
                                 !.nextTag = @ + 1]
     /\ pending' = Append(pending, d)
  /\ UNCHANGED << conn, shutdown_flag, notification_count, screen, cm, ct, pp, env, hist >>

\* the connection of a running process drops
ConnectionLost(p) ==
  /\ ConnectionOpen(p)
  /\ IF p = "consumer" THEN MainAlive ELSE pp.pc \notin {"returned", "escaped"}
  /\ conn' = [conn EXCEPT ![p] = close(@)]
  /\ IF p = "consumer"
     THEN broker' = Release(broker) /\ pending' = <<>>
     ELSE UNCHANGED << broker, pending >>
  /\ UNCHANGED << shutdown_flag, notification_count, screen, cm, ct, pp, env, hist >>

\* another client publishes a payload to the exchange under the routing key
ForeignPublish(body) ==
  /\ pp.n + env.foreign < MaxMessages
  /\ TopicExchange \in broker.exchanges
  /\ broker' = Route(broker, [body |-> body,
                              exchange |-> EXCHANGE_NAME, routing_key |-> ROUTING_KEY,
                              delivery_mode |-> 2, content_type |-> "application/json"])
  /\ env' = [env EXCEPT !.foreign = @ + 1]
  /\ UNCHANGED << conn, pending, shutdown_flag, notification_count, screen, cm, ct, pp, hist >>

(***************************************************************************)
(* Producer: data_publisher.py.                                            *)
(***************************************************************************)
DELIVERY_MODE == 2

\* publish_notification trying a rejected basic_publish a second time
publish_notification_Retry(channelOpen, data) ==
  LET m == [body |-> serialize_message(Notification(data)),
            exchange |-> EXCHANGE_NAME, routing_key |-> ROUTING_KEY,
            delivery_mode |-> DELIVERY_MODE, content_type |-> "application/json"]
  IN [attempts |-> IF channelOpen THEN << [m EXCEPT !.body = <<>>] >>
                   ELSE << [m EXCEPT !.body = <<>>], [m EXCEPT !.body = <<>>] >>,
      sent |-> IF channelOpen THEN <<m>> ELSE <<>>,
      result |-> IF channelOpen /\ HasKey(data, "batch_id") THEN "True" ELSE "False"]

\* publish_notification: the basic_publish calls it makes, the message the
\* broker received and the value it returns
publish_notification(channelOpen, data) ==
  LET m == [body |-> serialize_message(Notification(data)),
            exchange |-> EXCHANGE_NAME, routing_key |-> ROUTING_KEY,
            delivery_mode |-> DELIVERY_MODE, content_type |-> "application/json"]
  IN [attempts |-> << [m EXCEPT !.body = <<>>] >>,
      sent |-> IF channelOpen THEN <<m>> ELSE <<>>,
      result |-> IF channelOpen /\ HasKey(data, "batch_id") THEN "True" ELSE "False"]

\* main calling connect again after a failed attempt
P_Connect_Retry(outcome) ==
  /\ pp.pc = "connect"
  /\ hist.connects["producer"] < 2
  /\ conn' = [conn EXCEPT !["producer"] = ConnectFields(outcome)]
  /\ broker' = IF outcome = "ok" THEN exchange_declare(broker) ELSE broker
  /\ pp' = [pp EXCEPT !.connected = ConnectReturn(ExceptionOf(outcome)),
                      !.cause = outcome,
                      !.exc = ConnectReturn(ExceptionOf(outcome)) = "raised",
                      !.pc = CASE ConnectReturn(ExceptionOf(outcome)) = "True" -> "loop"
                               [] ConnectReturn(ExceptionOf(outcome)) = "False" -> "connect"
                               [] OTHER -> "finally"]
  /\ hist' = [hist EXCEPT !.connects["producer"] = @ + 1]
  /\ UNCHANGED << pending, shutdown_flag, notification_count, screen, cm, ct, env >>

\* rmq_connection.connect() and the branch on its result
P_Connect(outcome) ==
  /\ pp.pc = "connect"
  /\ conn' = [conn EXCEPT !["producer"] = ConnectFields(outcome)]
  /\ broker' = IF outcome = "ok" THEN exchange_declare(broker) ELSE broker
  /\ pp' = [pp EXCEPT !.connected = ConnectReturn(ExceptionOf(outcome)),
                      !.cause = outcome,
                      !.exc = ConnectReturn(ExceptionOf(outcome)) = "raised",
                      !.pc = IF ConnectReturn(ExceptionOf(outcome)) = "True"
                             THEN "loop" ELSE "finally"]
  /\ hist' = [hist EXCEPT !.connects["producer"] = @ + 1]
  /\ UNCHANGED << pending, shutdown_flag, notification_count, screen, cm, ct, env >>

\* one iteration of the main loop: simulate_data_upload, publish_notification, sleep
P_Publish(data) ==
  /\ pp.pc = "loop"
  /\ pp.n + env.foreign < MaxMessages
  /\ LET r == publish_notification(ChannelOpen("producer"), data) IN
     /\ broker' = IF r.sent # <<>> THEN Route(broker, r.sent[1]) ELSE broker
     /\ pp' = [pp EXCEPT !.n = @ + 1, !.last = r]
  /\ UNCHANGED << conn, pending, shutdown_flag, notification_count, screen, cm, ct,
                  env, hist >>

\* KeyboardInterrupt in the try block
P_Interrupt ==
  /\ pp.pc \in {"connect", "loop"}
  /\ pp' = [pp EXCEPT !.pc = "finally"]
  /\ UNCHANGED << conn, broker, pending, shutdown_flag, notification_count, screen,
                  cm, ct, env, hist >>

\* finally: rmq_connection.close()
P_Finally ==
  /\ pp.pc = "finally"
  /\ conn' = [conn EXCEPT !["producer"] = close(@)]
  /\ hist' = [hist EXCEPT !.closed = @ \cup {"producer"}]
  /\ pp' = [pp EXCEPT !.pc = IF pp.exc THEN "escaped" ELSE "returned"]
  /\ UNCHANGED << broker, pending, shutdown_flag, notification_count, screen, cm, ct, env >>

Next ==
  \/ \E o \in ConnectOutcomes : C_Connect(o)
  \/ C_QueueDeclare
  \/ C_QueueBind
  \/ C_Notifier
  \/ C_BasicQos
  \/ C_BasicConsume
  \/ C_StartThread
  \/ C_Poll
  \/ \E o \in {"ok", "raise"} : C_FinallyStop(o)
  \/ \E o \in {"ok", "raise"} : C_FinallyClose(o)
  \/ signal_handler
  \/ T_StartConsuming
  \/ T_Dispatch
  \/ \E f \in BOOLEAN : T_LoopEnds(f)
  \/ T_Deserialize
  \/ T_DisplayBegin
  \/ T_DisplayBody
  \/ T_Ack
  \/ T_Finally
  \/ B_Deliver
  \/ \E p \in Procs : ConnectionLost(p)
  \/ \E body \in ForeignBodies : ForeignPublish(body)
  \/ \E o \in ConnectOutcomes : P_Connect(o)
  \/ \E data \in simulate_data_upload(pp.n + 1) : P_Publish(data)
  \/ P_Interrupt
  \/ P_Finally

Spec == Init /\ [][Next]_vars

\* the consumer process alone with the broker and its environment
ConsumerNext ==
  \/ \E o \in ConnectOutcomes : C_Connect(o)
  \/ C_QueueDeclare
  \/ C_QueueBind
  \/ C_Notifier
  \/ C_BasicQos
  \/ C_BasicConsume
  \/ C_StartThread
  \/ C_Poll
  \/ \E o \in {"ok", "raise"} : C_FinallyStop(o)
  \/ \E o \in {"ok", "raise"} : C_FinallyClose(o)
  \/ signal_handler
  \/ T_StartConsuming
  \/ T_Dispatch
  \/ \E f \in BOOLEAN : T_LoopEnds(f)
  \/ T_Deserialize
  \/ T_DisplayBegin
  \/ T_DisplayBody
  \/ T_Ack
  \/ T_Finally
  \/ B_Deliver
  \/ ConnectionLost("consumer")
  \/ \E body \in ForeignBodies : ForeignPublish(body)

\* the steps the consumer's two threads and the broker take by themselves;
\* signals, connection drops and other clients' messages are never forced
MainStep ==
  \/ \E o \in ConnectOutcomes : C_Connect(o)
  \/ C_QueueDeclare \/ C_QueueBind \/ C_Notifier \/ C_BasicQos \/ C_BasicConsume
  \/ C_StartThread \/ C_Poll
  \/ \E o \in {"ok", "raise"} : C_FinallyStop(o)
  \/ \E o \in {"ok", "raise"} : C_FinallyClose(o)

LoopStep ==
  \/ T_StartConsuming \/ T_Dispatch \/ (\E f \in BOOLEAN : T_LoopEnds(f))
  \/ T_Deserialize \/ T_DisplayBegin \/ T_DisplayBody \/ T_Ack \/ T_Finally

FairConsumerSpec ==
  Init /\ [][ConsumerNext]_vars /\ WF_vars(MainStep) /\ WF_vars(LoopStep) /\ WF_vars(B_Deliver)

(***************************************************************************)
(* Properties.                                                             *)
(***************************************************************************)

\* C1: a delivery is acknowledged only after display_notification returned
\* normally for it, and a delivery whose handler raised is never acknowledged.
C1_AckOnlyAfterHandlerReturned ==
  /\ hist.acked \subseteq hist.returned
  /\ hist.acked \cap hist.raised = {}

\* one delivery was displayed and acknowledged, and the handler raised on another
C1_Witness == hist.acked # {} /\ hist.raised # {}

\* C2: a consumer set up by setup_consumer (basic_qos with prefetch_count=1
\* before basic_consume) never has more than one delivered and unacknowledged
\* message, and so never more than one delivery waiting for or inside the handler.
C2_AtMostOneUnacked ==
  /\ Len(broker.unacked) <= 1
  /\ Len(pending) + (IF ct.pc \in {"deserialize", "display_begin", "display_body", "ack"}
                     THEN 1 ELSE 0) <= 1

\* a delivery is inside the handler while another message waits in the queue
C2_Witness ==
  /\ broker.consumer
  /\ Len(broker.unacked) = 1
  /\ broker.ready # <<>>
  /\ ct.pc = "display_body"

\* C3: when the broker is unreachable or rejects the credentials, connect
\* returns False and raises nothing; it returns True only once the connection
\* and the channel were opened and the topic exchange is declared.
C3_ConnectReportsFailure ==
  \A r \in { [p |-> "consumer", st |-> cm], [p |-> "producer", st |-> pp] } :
    /\ r.st.cause \in {"unreachable", "auth_rejected"} => r.st.connected = "False"
    /\ r.st.connected = "True" =>
         /\ conn[r.p].connection # "none"
         /\ conn[r.p].channel # "none"
         /\ TopicExchange \in broker.exchanges

\* the consumer found the broker unreachable and the producer was rejected
C3_Witness ==
  /\ cm.cause = "unreachable" /\ cm.connected = "False"
  /\ pp.cause = "auth_rejected" /\ pp.connected = "False"

\* C4: when connect returns False, the process goes through its finally block
\* and returns: no queue_declare, queue_bind, basic_consume, start_consuming or
\* basic_publish is executed, no consumer thread is started, nothing escapes main.
C4_FailedConnectSkipsLoop ==
  /\ cm.connected = "False" =>
       /\ cm.pc \in {"finally_stop", "finally_close", "returned"}
       /\ hist.setup = <<>>
       /\ ct.pc = "unstarted"
       /\ \A c \in hist.calls : c.op # "start_consuming"
  /\ pp.connected = "False" =>
       /\ pp.pc \in {"finally", "returned"}
       /\ pp.n = 0
       /\ pp.last.attempts = <<>>

\* both processes have returned from main after a failed connect
C4_Witness ==
  /\ cm.connected = "False" /\ cm.pc = "returned"
  /\ pp.connected = "False" /\ pp.pc = "returned"

\* C5: when the shutdown flag was set while the consumer was consuming, main
\* does not end with the broker connection still open.
C5_ShutdownClosesConnection ==
  (shutdown_flag /\ ct.pc # "unstarted" /\ ~MainAlive) => ~ConnectionOpen("consumer")

\* C6: after the receive loop ended on a fault, close() is eventually executed
\* by the consumer process.
C6_FaultLeadsToClose ==
  (ct.pc = "done" /\ ct.fault) ~> ("consumer" \in hist.closed)

\* the delivery the callback was given has a body that is not a JSON text
Malformed(body) ==
  \/ ~Utf8Decodable(body)
  \/ \E r \in {json_loads(body)} : ~(r.ok /\ r.next = Len(body) + 1)

\* C7: a malformed body is decoded to the error marker, and processing that
\* delivery does not end the receive loop.
C7_MalformedBodyKeepsLoop ==
  (ct.cur # NoDelivery /\ Malformed(ct.cur.msg.body)) =>
     /\ ct.pc \in {"display_begin", "display_body", "ack"} => ct.data = DeserializeError
     /\ ct.pc \notin {"finally", "done"}

\* C8: when the handler raised on a delivery, the counter and the screen are
\* those of the last notification that was displayed completely.
C8_FailedDisplayLeavesScreen ==
  ct.cur.tag \in hist.raised =>
     /\ notification_count = hist.good.count
     /\ screen = hist.good.screen

\* C9: while the receive-loop thread runs, the main thread makes no call on
\* the connection or the channel.
C9_BrokerCallsConfined ==
  \A c \in hist.calls : c.concurrent => c.ctx = "loop"

\* C10: a call of publish_notification returns True or False, makes exactly
\* one basic_publish attempt, to the fixed exchange and routing key with
\* delivery mode 2, returns False when the attempt was rejected, and returns
\* True only when the attempt completed.
C10_PublishOnceNoFault ==
  pp.n > 0 =>
     /\ pp.last.result \in {"True", "False"}
     /\ Len(pp.last.attempts) = 1
     /\ \A i \in 1..Len(pp.last.attempts) :
          /\ pp.last.attempts[i].exchange = "observatorio_events"
          /\ pp.last.attempts[i].routing_key = "water.data.uploaded"
          /\ pp.last.attempts[i].delivery_mode = 2
     /\ pp.last.sent = <<>> => pp.last.result = "False"
     /\ pp.last.result = "True" => pp.last.sent # <<>>

\* a publish was rejected on a dropped connection after one that completed
C10_Witness ==
  /\ pp.n = 2
  /\ pp.last.result = "False"
  /\ conn["producer"].connection = "closed"

(***************************************************************************)
(* Normal operation: both processes connect, the consumer sets itself up   *)
(* and receives, the producer publishes; no signal, no connection drop, no *)
(* other client.                                                           *)
(***************************************************************************)
NormalNext ==
  \/ C_Connect("ok")
  \/ C_QueueDeclare
  \/ C_QueueBind
  \/ C_Notifier
  \/ C_BasicQos
  \/ C_BasicConsume
  \/ C_StartThread
  \/ T_StartConsuming
  \/ T_Dispatch
  \/ T_Deserialize
  \/ T_DisplayBegin
  \/ T_DisplayBody
  \/ T_Ack
  \/ B_Deliver
  \/ P_Connect("ok")
  \/ \E data \in simulate_data_upload(pp.n + 1) : P_Publish(data)

\* the receive-loop thread keeps running and the broker keeps delivering
NormalLoop ==
  \/ T_StartConsuming \/ T_Dispatch \/ T_Deserialize
  \/ T_DisplayBegin \/ T_DisplayBody \/ T_Ack

NormalSpec ==
  Init /\ [][NormalNext]_vars /\ WF_vars(NormalLoop) /\ WF_vars(B_Deliver)

\* the batch number on a screen, 0 when no batch is on it
BatchOn(scr) ==
  IF \E i \in 1..Len(scr) : scr[i].kind = "batch"
  THEN LET text == scr[CHOOSE i \in 1..Len(scr) : scr[i].kind = "batch"].text
       IN IF \E n \in 1..MaxMessages : ToString(n) = text
          THEN CHOOSE n \in 1..MaxMessages : ToString(n) = text
          ELSE 0
  ELSE 0

\* the producer's envelope number n is in the queue or out for delivery
Queued(n) ==
  \E m \in {broker.ready[i] : i \in 1..Len(broker.ready)}
           \cup {broker.unacked[i].msg : i \in 1..Len(broker.unacked)} :
    m.body \in { serialize_message(Notification(data)) : data \in simulate_data_upload(n) }

\* the display of the producer's envelope number n has just completed
Displayed(n) == ct.pc = "ack" /\ BatchOn(screen) = n

\* C11: in normal operation an envelope published while the consumer is set
\* up and consuming reaches the queue, an envelope in the queue of the
\* consuming consumer is displayed at some point, and every display that
\* completes shows a later batch than all displays before it, so that no
\* envelope is displayed a second time
C11_DisplayedExactlyOnce ==
  /\ [][(Consuming /\ pp'.n = pp.n + 1) => Queued(pp.n)']_vars
  /\ \A n \in 1..MaxMessages : (Consuming /\ Queued(n)) ~> Displayed(n)
  /\ [][(ct.pc = "display_body" /\ ct'.pc = "ack")
        => BatchOn(screen') > BatchOn(hist.good.screen)]_vars

\* two envelopes published to the consumer have both been displayed, the
\* second one just now
C11_Witness ==
  /\ pp.n = 2
  /\ notification_count = 2
  /\ Displayed(2)
  /\ Cardinality(hist.acked) = 1

(***************************************************************************)
(* One upload through the whole path: serialize_message in the producer,   *)
(* the broker, deserialize_message and display_notification in the         *)
(* consumer.  The record is drawn from every choice of threshold flags     *)
(* over several samples of WATER_PARAMETERS.                               *)
(***************************************************************************)
ParameterSamples ==
  { <<"pH", "E. coli", "Nitratos">>,
    <<"Temperatura", "Turbidez", "Coliformes totales">>,
    <<"Fosfatos", "pH", "Conductividad", "E. coli">> }

UploadSamples ==
  UNION { { UploadWith(1, ps, flags) : flags \in [1..Len(ps) -> BOOLEAN] }
          : ps \in ParameterSamples }

\* the first iteration of the producer's loop, for any sampled record
P_PublishFirst(data) == pp.n = 0 /\ P_Publish(data)

OneUploadNext ==
  \/ C_Connect("ok")
  \/ C_QueueDeclare
  \/ C_QueueBind
  \/ C_Notifier
  \/ C_BasicQos
  \/ C_BasicConsume
  \/ C_StartThread
  \/ T_StartConsuming
  \/ T_Dispatch
  \/ T_Deserialize
  \/ T_DisplayBegin
  \/ T_DisplayBody
  \/ T_Ack
  \/ B_Deliver
  \/ P_Connect("ok")
  \/ \E data \in UploadSamples : P_PublishFirst(data)

OneUploadSpec == Init /\ [][OneUploadNext]_vars

\* C12: the envelope the consumer gets from deserialize_message is the
\* envelope the producer gave to serialize_message: same fields in the same
\* nesting, same measurements in the same order with the same values
C12_RoundTrip ==
  \A u \in UploadSamples :
    (/\ ct.pc \in {"display_begin", "display_body", "ack"}
     /\ ct.cur.msg.body = serialize_message(Notification(u)))
    => ct.data = Notification(u)

\* a four-measurement envelope with mixed flags has been deserialized
C12_Witness ==
  /\ ct.pc = "display_begin"
  /\ ct.data = Notification(UploadWith(1, <<"Fosfatos", "pH", "Conductividad", "E. coli">>,
                                       <<TRUE, FALSE, FALSE, TRUE>>))
  /\ ct.cur.msg = pp.last.sent[1]

(***************************************************************************)
(* One RabbitMQConnection object under any sequence of connect and close   *)
(* calls by a single thread, the broker dropping the connection at any     *)
(* point.  hist.lifecycle is the record of the calls.                      *)
(***************************************************************************)
MaxCalls == 3

R_Connect(outcome) ==
  /\ Len(hist.lifecycle) < MaxCalls
  /\ conn' = [conn EXCEPT !["producer"] = ConnectFields(outcome)]
  /\ broker' = IF outcome = "ok" THEN exchange_declare(broker) ELSE broker
  /\ hist' = [hist EXCEPT !.lifecycle =
                Append(@, [op |-> "connect", before |-> conn["producer"],
                           after |-> ConnectFields(outcome),
                           raised |-> ConnectReturn(ExceptionOf(outcome)) = "raised"])]
  /\ UNCHANGED << pending, shutdown_flag, notification_count, screen, cm, ct, pp, env >>

R_Close ==
  /\ Len(hist.lifecycle) < MaxCalls
  /\ conn' = [conn EXCEPT !["producer"] = close_outcome(@).after]
  /\ hist' = [hist EXCEPT !.lifecycle =
                Append(@, [op |-> "close", before |-> conn["producer"],
                           after |-> close_outcome(conn["producer"]).after,
                           raised |-> close_outcome(conn["producer"]).raised])]
  /\ UNCHANGED << broker, pending, shutdown_flag, notification_count, screen, cm, ct,
                  pp, env >>

ConnectionNext ==
  \/ \E o \in ConnectOutcomes : R_Connect(o)
  \/ R_Close
  \/ ConnectionLost("producer")

ConnectionSpec == Init /\ [][ConnectionNext]_vars

\* C13: whatever connect and close calls came before, a close call does not
\* raise and leaves the connection not open, and a close call on a
\* connection that is closed or was never opened changes no field
C13_CloseIdempotent ==
  \A i \in 1..Len(hist.lifecycle) :
    LET call == hist.lifecycle[i] IN
    call.op = "close" =>
      /\ ~call.raised
      /\ call.after.connection # "open"
      /\ call.before.connection # "open" => call.after = call.before

\* close on an open connection, then close again on the closed one
C13_Witness ==
  \E i \in 1..(Len(hist.lifecycle) - 1) :
    /\ hist.lifecycle[i].op = "close"
    /\ hist.lifecycle[i].before.connection = "open"
    /\ hist.lifecycle[i + 1].op = "close"
    /\ hist.lifecycle[i + 1].before.connection = "closed"

\* the positions of the alert banner on the screen
Banners == { i \in 1..Len(screen) : screen[i].kind = "alert" }

\* C14: when the display of an envelope has completed, the count in the
\* alert banner is the number of measurements the producer flagged with
\* threshold_exceeded, and there is no banner when it flagged none
C14_AlertCountMatchesFlags ==
  \A ps \in ParameterSamples : \A flags \in [1..Len(ps) -> BOOLEAN] :
    (/\ ct.pc = "ack"
     /\ ct.cur.msg.body = serialize_message(Notification(UploadWith(1, ps, flags))))
    => LET flagged == Cardinality({ i \in 1..Len(ps) : flags[i] }) IN
       /\ flagged = 0 => Banners = {}
       /\ flagged > 0 => /\ Cardinality(Banners) = 1
                         /\ \A i \in Banners : screen[i].n = flagged

\* an envelope with two of its four measurements flagged is on the screen
C14_Witness ==
  /\ ct.pc = "ack"
  /\ ct.cur.msg.body =
       serialize_message(Notification(UploadWith(1, <<"Fosfatos", "pH", "Conductividad", "E. coli">>,
                                                 <<FALSE, TRUE, TRUE, FALSE>>)))
  /\ \E i \in Banners : screen[i].n = 2

\* C15: each process calls connect at most once, and once its connect has
\* been called a connection that is not open (the attempt failed, the broker
\* dropped it, it was closed) is never open again
C15_NoReconnect ==
  /\ [](\A p \in Procs : hist.connects[p] <= 1)
  /\ [][\A p \in Procs :
          (hist.connects[p] >= 1 /\ conn[p].connection # "open")
          => conn'[p].connection # "open"]_vars

\* the producer's only attempt failed and its loop never ran; the consumer
\* lost an established connection
C15_Witness ==
  /\ hist.connects["producer"] = 1 /\ pp.connected = "False" /\ pp.pc = "returned"
  /\ hist.connects["consumer"] = 1 /\ cm.connected = "True"
  /\ conn["consumer"].connection = "closed"
  /\ "consumer" \notin hist.closed

\* the three declarations of the topology carried out in the programs' order
DeclareTopology(b) == queue_bind(queue_declare(exchange_declare(b)))

\* the broker refuses a declaration whose name exists with other parameters
Refused(entities, e) == \E x \in entities : x.name = e.name /\ x # e

\* C16: once the topology is declared, declaring the exchange, the queue and
\* the binding again with the same parameters is refused nowhere and leaves
\* exactly the same exchanges, queues and bindings
C16_TopologyIdempotent ==
  /\ DeclareTopology(DeclareTopology(broker)) = DeclareTopology(broker)
  /\ Binding \in broker.bindings =>
       /\ DeclareTopology(broker) = broker
       /\ ~Refused(broker.exchanges, TopicExchange)
       /\ ~Refused(broker.queues, DurableQueue)
       /\ broker.exchanges = {TopicExchange}
       /\ broker.queues = {DurableQueue}
       /\ broker.bindings = {Binding}

\* the exchange has been declared by both processes, the queue is bound
C16_Witness ==
  /\ cm.connected = "True" /\ pp.connected = "True"
  /\ hist.setup = <<"queue_declare", "queue_bind", "basic_qos", "basic_consume">>
  /\ broker.exchanges = {TopicExchange}
  /\ Binding \in broker.bindings

\* C17: the consumer goes from unbound to bound to consuming: the receive
\* loop is entered only after connect returned True and basic_consume was
\* called, and the callback is registered only after queue_declare,
\* queue_bind and basic_qos(prefetch_count=1), in that order
C17_SetupOrder ==
  /\ (\E c \in hist.calls : c.op = "start_consuming") =>
        /\ cm.connected = "True"
        /\ Len(hist.setup) = 4
  /\ (\E i \in 1..Len(hist.setup) : hist.setup[i] = "basic_consume") =>
        hist.setup = <<"queue_declare", "queue_bind", "basic_qos", "basic_consume">>
  /\ broker.consumer =>
        /\ DurableQueue \in broker.queues
        /\ Binding \in broker.bindings
        /\ broker.prefetch = 1

\* the receive loop has been entered with the callback registered
C17_Witness ==
  /\ \E c \in hist.calls : c.op = "start_consuming"
  /\ broker.consumer
  /\ ct.pc = "consuming"

\* C18: the notification counter is never below the number of
\* acknowledgments sent and never more than one above it
C18_CounterTracksAcks ==
  /\ notification_count >= Cardinality(hist.acked)
  /\ notification_count <= Cardinality(hist.acked) + 1

\* one message acknowledged, the next one counted and not acknowledged
C18_Witness ==
  /\ Cardinality(hist.acked) = 1
  /\ notification_count = 2
  /\ ct.pc \in {"display_body", "ack", "finally", "done"}

\* the receive loop has ended on an exception
LoopFaulted == ct.fault /\ ct.pc \in {"finally", "done"}

\* C19: once the receive loop has ended on a fault the process handles no
\* further message (no display begins, none completes, no ack is sent), and
\* main stays in its wait, the process alive, for as long as the shutdown
\* flag is not set
C19_FaultedLoopStaysIdle ==
  /\ [][LoopFaulted =>
          /\ LoopFaulted'
          /\ notification_count' = notification_count
          /\ hist'.returned = hist.returned
          /\ hist'.raised = hist.raised
          /\ hist'.acked = hist.acked
          /\ (~shutdown_flag' => cm'.pc = "poll")]_vars
  /\ []((LoopFaulted /\ ~shutdown_flag) => (cm.pc = "poll" /\ MainAlive))

\* a handler fault ended the loop with a message still in the queue, and
\* main is waiting with no shutdown requested
C19_Witness ==
  /\ ct.pc = "done" /\ ct.fault
  /\ hist.raised # {}
  /\ Len(broker.ready) + Len(broker.unacked) >= 1
  /\ cm.pc = "poll"
  /\ ~shutdown_flag

\* C20: when the shutdown flag is set while a delivery is in the handler
\* (ct.interrupted), main does not carry out its close of the connection as
\* long as that delivery is in the handler with its ack not sent
C20_ShutdownWaitsForInFlight ==
  [][(/\ ct.interrupted
      /\ InHandler
      /\ cm.pc = "finally_close")
     => cm'.pc = "finally_close"]_vars

\* the positions of the three threads of control
TypeOK ==
  /\ cm.pc \in {"connect", "queue_declare", "queue_bind", "notifier", "basic_qos",
                "basic_consume", "start_thread", "poll", "finally_stop",
                "finally_close", "returned", "escaped"}
  /\ ct.pc \in {"unstarted", "start_consuming", "consuming", "deserialize",
                "display_begin", "display_body", "ack", "finally", "done"}
  /\ pp.pc \in {"connect", "loop", "finally", "returned", "escaped"}
====
